---- MODULE Spec2Model ----
(***************************************************************************)
(* Model of the SACDB dashboard (tsaaii/SACDB).                            *)
(*                                                                         *)
(* Part 1 - the Dataset Loader and everything that shares its cache: the   *)
(* lru_cache'd CSV read of data_processing.py, the file watcher threads of *)
(* app.py, the upload workflow of callbacks/uploader_callbacks.py and the  *)
(* presentation callbacks that hold a table.                               *)
(* Part 2 - the aggregation arithmetic of data_processing.py and           *)
(* visualizations/charts.py, as operators over small tables.               *)
(***************************************************************************)
EXTENDS Integers, Sequences, FiniteSets, TLC

\* ------------------------------------------------------------------ bounds
\* Number of writes to files on disk (external edits and uploads) in a run.
MaxWrites == 2
\* Number of pd.read_csv executions in a run.
MaxReads == 2

\* --------------------------------------------------------------- constants
\* app.py:36  DATA_FILE_LAST_MODIFIED = 0
InitialLastModified == 0

\* data_processing.py:41 / app.py:45  os.environ.get('DATA_FILE', 'data.csv')
DEFAULT_DATA_FILE == "data.csv"
\* uploader_callbacks.py:253,286  os.path.join('data', 'data.csv')
UPLOAD_CSV == "data/data.csv"
Paths == {DEFAULT_DATA_FILE, UPLOAD_CSV}

\* The two places that start a thread on watch_data_file.
WatcherIds == {"main", "hook"}
\* The holders of a table obtained once: the closures of
\* register_dashboard_callbacks and register_enhanced_public_callbacks, and
\* the module-level df of layouts/dashboard_layout.py.
Readers == {"dashboard", "public", "layout"}

VARIABLES
    production,    \* os.environ.get('DASH_ENV') = 'production'
    asScript,      \* app.py is run as __main__ (else imported by a WSGI server)
    dataFile,      \* the path DATA_FILE names
    files,         \* path -> state of the file on disk
    clock,         \* number of writes so far; a write's mtime
    cache,         \* the one slot of lru_cache(maxsize=1) on _load_data_cached
    reads,         \* number of pd.read_csv executions so far
    phase,         \* "boot" | "loaded" | "serving" | "crashed"
    requested,     \* the first HTTP request has been handled
    captured,      \* reader -> the table it obtained at registration
    lastRead,      \* reader -> the table its last invocation computed from
    watchers,      \* watcher id -> thread state
    lastModified,  \* DATA_FILE_LAST_MODIFIED
    call,          \* the last load_data call: arguments and outcome
    lastForcedVer, \* the file content at the most recent load_data(True)
    upload         \* the content written by the last successful upload

\* Part 2: the table handed to an aggregation and what the aggregation returned.
VARIABLES
    table,         \* the dataframe argument
    result         \* the value the last aggregation call returned

aggvars == <<table, result>>

\* Part 6: the browser session, the public landing page and the upload page.
VARIABLES
    session,       \* the login state of the browser session and its page
    view,          \* the public landing page: view state, interval, content
    uploads        \* upload_history.json and the history rows of the page

uivars == <<session, view, uploads>>

sysvars == <<production, asScript, dataFile, files, clock, cache, reads, phase,
             requested, captured, lastRead, watchers, lastModified, call, lastForcedVer,
             upload>>

\* ------------------------------------------------------------ file system
Kinds == {"ok", "malformed", "nocluster"}
MissingFile == [exists |-> FALSE, kind |-> "ok", ver |-> 0, mtime |-> 0, padded |-> FALSE]
WrittenFile(k, t, p) == [exists |-> TRUE, kind |-> k, ver |-> t, mtime |-> t, padded |-> p]

\* What a write at time t can leave on disk: a well-formed table whose Cluster
\* values carry surrounding whitespace or not, a file the CSV parser rejects,
\* or a CSV without a Cluster column.
Written(t) ==
    {WrittenFile("ok", t, p) : p \in BOOLEAN}
        \cup {WrittenFile(k, t, FALSE) : k \in Kinds \ {"ok"}}

Readable(f) == f.exists /\ f.kind = "ok"

\* ------------------------------------------------------------------ loader
NoTable == [some |-> FALSE, ver |-> 0, inst |-> 0, padded |-> FALSE]

\* df['Cluster'] = df['Cluster'].str.strip()
Strip(t) == [t EXCEPT !.padded = FALSE]

\* The function objects that carry a cache_clear attribute: those wrapped by
\* functools.lru_cache.
LruWrapped == {"_load_data_cached"}

\* <fn>.cache_clear(): empties the slot when fn is lru_cache-wrapped, raises
\* AttributeError otherwise.
cache_clear(fn, c) ==
    IF fn \in LruWrapped
    THEN [raised |-> FALSE, cache |-> NoTable]
    ELSE [raised |-> TRUE, cache |-> c]

Mut_load_data_cached_NoCache(c, f, r) ==
    IF f.exists /\ f.kind = "ok"
    THEN LET t == Strip([some |-> TRUE, ver |-> f.ver, inst |-> r + 1, padded |-> f.padded])
         IN [outcome |-> "ok", ret |-> t, cache |-> t, reads |-> r + 1, didRead |-> TRUE]
    ELSE [outcome |-> "raise", ret |-> NoTable, cache |-> NoTable, reads |-> r + 1,
          didRead |-> TRUE]

Mut_load_data_cached_Fallback(c, f, r) ==
    IF c.some
    THEN [outcome |-> "ok", ret |-> c, cache |-> c, reads |-> r, didRead |-> FALSE]
    ELSE LET t == IF f.exists /\ f.kind = "ok"
                  THEN Strip([some |-> TRUE, ver |-> f.ver, inst |-> r + 1,
                              padded |-> f.padded])
                  ELSE [some |-> TRUE, ver |-> 0, inst |-> r + 1, padded |-> FALSE]
         IN [outcome |-> "ok", ret |-> t, cache |-> t, reads |-> r + 1, didRead |-> TRUE]

\* _load_data_cached() under lru_cache(maxsize=1): a hit returns the cached
\* instance; a miss reads the file, and caches the result only when the body
\* returns (lru_cache stores nothing when the body raises).
load_data_cached(c, f, r) ==
    IF c.some
    THEN [outcome |-> "ok", ret |-> c, cache |-> c, reads |-> r, didRead |-> FALSE]
    ELSE IF f.exists /\ f.kind = "ok"
         THEN LET t == Strip([some |-> TRUE, ver |-> f.ver, inst |-> r + 1,
                              padded |-> f.padded])
              IN [outcome |-> "ok", ret |-> t, cache |-> t, reads |-> r + 1,
                  didRead |-> TRUE]
         ELSE \* missing: pd.read_csv raises; malformed: the parser raises;
              \* nocluster: df['Cluster'] raises KeyError
              [outcome |-> "raise", ret |-> NoTable, cache |-> NoTable,
               reads |-> r + 1, didRead |-> TRUE]

\* load_data(force_reload): the cache_clear call is made on load_data itself.
load_data(force, c, f, r) ==
    IF force
    THEN LET cc == cache_clear("load_data", c)
         IN IF cc.raised
            THEN [outcome |-> "raise", ret |-> NoTable, cache |-> cc.cache,
                  reads |-> r, didRead |-> FALSE]
            ELSE load_data_cached(cc.cache, f, r)
    ELSE load_data_cached(c, f, r)

\* Whether a load_data call now would execute pd.read_csv.
WouldRead(force, c, f) == load_data(force, c, f, 0).didRead

NoCall == [force |-> FALSE, before |-> NoTable, outcome |-> "none", ret |-> NoTable,
           didRead |-> FALSE, fileVer |-> 0]

\* The record of a load_data call with result res: its argument, the cache
\* it found, what it returned, and the version of the file's content at the
\* time of the call (0 when the file is missing, unparseable or lacks Cluster).
CallRecord(force, res) ==
    [force |-> force, before |-> cache, outcome |-> res.outcome, ret |-> res.ret,
     didRead |-> res.didRead,
     fileVer |-> IF Readable(files[dataFile]) THEN files[dataFile].ver ELSE 0]

\* The content of the file at the most recent load_data(True): -1 before the
\* first one, 0 when the file was not readable then.
NoForced == -1
ForcedVer(force) ==
    IF force
    THEN (IF Readable(files[dataFile]) THEN files[dataFile].ver ELSE 0)
    ELSE lastForcedVer

\* ------------------------------------------------------------------- Init
WatcherOff == [pc |-> "off", cm |-> 0, raised |-> FALSE]

SysInit ==
    /\ production \in BOOLEAN
    /\ asScript \in BOOLEAN
    /\ dataFile \in Paths
    /\ clock = 1
    /\ \E f \in {MissingFile} \cup Written(1) :
           files = [q \in Paths |-> IF q = dataFile THEN f ELSE MissingFile]
    /\ cache = NoTable
    /\ reads = 0
    /\ phase = "boot"
    /\ requested = FALSE
    /\ captured = [r \in Readers |-> NoTable]
    /\ lastRead = [reader |-> "none", table |-> NoTable, afterReloadOf |-> NoForced]
    /\ watchers = [w \in WatcherIds |-> WatcherOff]
    /\ lastModified = InitialLastModified
    /\ call = NoCall
    /\ lastForcedVer = NoForced
    /\ upload = 0

\* ------------------------------------------------------------ environment
\* Someone replaces, edits or corrupts the data file outside the application.
FileWrite ==
    /\ phase # "crashed"
    /\ clock < MaxWrites + 1
    /\ \E f \in Written(clock + 1) : files' = [files EXCEPT ![dataFile] = f]
    /\ clock' = clock + 1
    /\ UNCHANGED <<production, asScript, dataFile, cache, reads, phase, requested,
                   captured, lastRead, watchers, lastModified, call, lastForcedVer, upload, aggvars, uivars>>

\* Someone deletes the data file.
FileDelete ==
    /\ phase # "crashed"
    /\ files[dataFile].exists
    /\ clock < MaxWrites + 1
    /\ files' = [files EXCEPT ![dataFile] = MissingFile]
    /\ clock' = clock + 1
    /\ UNCHANGED <<production, asScript, dataFile, cache, reads, phase, requested,
                   captured, lastRead, watchers, lastModified, call, lastForcedVer, upload, aggvars, uivars>>

\* ---------------------------------------------------------- load_data calls
\* A caller of data_processing.load_data (main_layout.create_public_landing_page,
\* a test, an interactive session).
ClientLoad(force) ==
    /\ phase # "crashed"
    /\ WouldRead(force, cache, files[dataFile]) => reads < MaxReads
    /\ LET res == load_data(force, cache, files[dataFile], reads)
       IN /\ cache' = res.cache
          /\ reads' = res.reads
          /\ call' = CallRecord(force, res)
          /\ lastForcedVer' = ForcedVer(force)
    /\ UNCHANGED <<production, asScript, dataFile, files, clock, phase, requested,
                   captured, lastRead, watchers, lastModified, upload, aggvars, uivars>>

\* The module body of app.py: importing layouts.dashboard_layout runs
\* df = load_data(); register_dashboard_callbacks and
\* register_enhanced_public_callbacks run df = load_data() once each. A raise
\* there ends the import, and the process.
Boot ==
    /\ phase = "boot"
    /\ WouldRead(FALSE, cache, files[dataFile]) => reads < MaxReads
    /\ LET res == load_data(FALSE, cache, files[dataFile], reads)
       IN /\ cache' = res.cache
          /\ reads' = res.reads
          /\ call' = CallRecord(FALSE, res)
          /\ lastForcedVer' = ForcedVer(FALSE)
          /\ IF res.outcome = "ok"
             THEN /\ captured' = [r \in Readers |-> res.ret]
                  /\ phase' = "loaded"
             ELSE /\ captured' = captured
                  /\ phase' = "crashed"
    /\ UNCHANGED <<production, asScript, dataFile, files, clock, requested,
                   lastRead, watchers, lastModified, upload, aggvars, uivars>>

\* ------------------------------------------------------------ app start-up
\* app.py run as a script (lines 158-174): in development mode a watcher
\* thread is started, then app.run serves.
Main ==
    /\ phase = "loaded"
    /\ asScript
    /\ watchers' = IF ~production
                   THEN [watchers EXCEPT !["main"].pc = "init"]
                   ELSE watchers
    /\ phase' = "serving"
    /\ UNCHANGED <<production, asScript, dataFile, files, clock, cache, reads,
                   requested, captured, lastRead, lastModified, call, lastForcedVer, upload, aggvars, uivars>>

\* app.server served by a WSGI server that imported app.py.
Serve ==
    /\ phase = "loaded"
    /\ ~asScript
    /\ phase' = "serving"
    /\ UNCHANGED <<production, asScript, dataFile, files, clock, cache, reads,
                   requested, captured, lastRead, watchers, lastModified, call, lastForcedVer,
                   upload, aggvars, uivars>>

\* The first HTTP request: Flask runs the before_first_request hooks, and
\* start_file_watcher is one of them when DASH_ENV is not 'production'.
FirstRequest ==
    /\ phase = "serving"
    /\ ~requested
    /\ requested' = TRUE
    /\ watchers' = IF ~production
                   THEN [watchers EXCEPT !["hook"].pc = "init"]
                   ELSE watchers
    /\ UNCHANGED <<production, asScript, dataFile, files, clock, cache, reads, phase,
                   captured, lastRead, lastModified, call, lastForcedVer, upload, aggvars, uivars>>

\* ------------------------------------------------------------ the watcher
Mut_Advanced_OrEqual(cm, last) == cm >= last

\* app.py:56  current_modified > DATA_FILE_LAST_MODIFIED
Advanced(cm, last) == cm > last

Mut_AfterTry_Dies(raised) == IF raised THEN "dead" ELSE "sleep"

\* app.py:53-67: where the loop body goes after its try block: `except
\* Exception` swallows a raise, and both paths reach time.sleep(5).
AfterTry(raised) == "sleep"

\* app.py:43-49: the initial timestamp; a raise is printed and swallowed.
WInit(w) ==
    /\ watchers[w].pc = "init"
    /\ lastModified' = IF files[dataFile].exists
                       THEN files[dataFile].mtime ELSE lastModified
    /\ watchers' = [watchers EXCEPT ![w].pc = "poll"]
    /\ UNCHANGED <<production, asScript, dataFile, files, clock, cache, reads, phase,
                   requested, captured, lastRead, call, lastForcedVer, upload, aggvars, uivars>>

\* app.py:54-56: current_modified = os.path.getmtime(data_file) and its
\* comparison with the recorded time. `raised` tells whether the last
\* completed try block ended in the except clause.
WPoll(w) ==
    /\ watchers[w].pc = "poll"
    /\ IF files[dataFile].exists
       THEN IF Advanced(files[dataFile].mtime, lastModified)
            THEN watchers' = [watchers EXCEPT ![w].pc = "update",
                                              ![w].cm = files[dataFile].mtime]
            ELSE watchers' = [watchers EXCEPT ![w].pc = AfterTry(FALSE),
                                              ![w].raised = FALSE]
       ELSE watchers' = [watchers EXCEPT ![w].pc = AfterTry(TRUE),
                                         ![w].raised = TRUE]
    /\ UNCHANGED <<production, asScript, dataFile, files, clock, cache, reads, phase,
                   requested, captured, lastRead, lastModified, call, lastForcedVer,
                   upload, aggvars, uivars>>

\* app.py:57-61: print, record the new time, then load_data(force_reload=True).
WUpdate(w) ==
    /\ watchers[w].pc = "update"
    /\ WouldRead(TRUE, cache, files[dataFile]) => reads < MaxReads
    /\ lastModified' = watchers[w].cm
    /\ LET res == load_data(TRUE, cache, files[dataFile], reads)
       IN /\ cache' = res.cache
          /\ reads' = res.reads
          /\ call' = CallRecord(TRUE, res)
          /\ lastForcedVer' = ForcedVer(TRUE)
          /\ watchers' = [watchers EXCEPT
                            ![w].pc = AfterTry(res.outcome = "raise"),
                            ![w].cm = 0,
                            ![w].raised = (res.outcome = "raise")]
    /\ UNCHANGED <<production, asScript, dataFile, files, clock, phase, requested,
                   captured, lastRead, upload, aggvars, uivars>>

\* app.py:67: time.sleep(5) returns and the loop starts over.
WSleep(w) ==
    /\ watchers[w].pc = "sleep"
    /\ watchers' = [watchers EXCEPT ![w].pc = "poll"]
    /\ UNCHANGED <<production, asScript, dataFile, files, clock, cache, reads, phase,
                   requested, captured, lastRead, lastModified, call, lastForcedVer,
                   upload, aggvars, uivars>>

WatcherStep(w) == WInit(w) \/ WPoll(w) \/ WUpdate(w) \/ WSleep(w)

\* ------------------------------------------------- presentation callbacks
\* An invocation of a callback of reader r (update_filter_options,
\* update_dashboard, reset_filters; update_public_landing_content; the
\* dashboard layout's metrics): it computes from the df of its closure.
\* afterReloadOf notes the forced reload that preceded the invocation.
Callback(r) ==
    /\ phase = "serving"
    /\ requested
    /\ lastRead' = [reader |-> r, table |-> captured[r], afterReloadOf |-> lastForcedVer]
    /\ UNCHANGED <<production, asScript, dataFile, files, clock, cache, reads, phase,
                   requested, captured, watchers, lastModified, call, lastForcedVer,
                   upload, aggvars, uivars>>

\* ------------------------------------------------------------------ upload
\* The return sites of process_uploaded_file after its first guard.
UploadOutcomes == {"ok", "save_error", "data_error", "error"}

\* process_uploaded_file for a validated file_info: the workbook is saved
\* under data/, read back and written as data/data.csv (Cluster values as
\* uploaded); nothing else happens to the loader. An error return leaves the
\* CSV as it was.
ProcessUpload ==
    /\ phase = "serving"
    /\ requested
    /\ \E o \in UploadOutcomes :
          IF o = "ok"
          THEN /\ clock < MaxWrites + 1
               /\ \E p \in BOOLEAN :
                     files' = [files EXCEPT ![UPLOAD_CSV] = WrittenFile("ok", clock + 1, p)]
               /\ clock' = clock + 1
               /\ upload' = clock + 1
          ELSE UNCHANGED <<files, clock, upload>>
    /\ UNCHANGED <<production, asScript, dataFile, cache, reads, phase, requested,
                   captured, lastRead, watchers, lastModified, call, lastForcedVer,
                   aggvars, uivars>>

\* The loader, the start-up and the watcher threads.
CoreNext ==
    \/ FileWrite
    \/ FileDelete
    \/ \E force \in BOOLEAN : ClientLoad(force)
    \/ Boot
    \/ Main
    \/ Serve
    \/ FirstRequest
    \/ \E w \in WatcherIds : WatcherStep(w)

\* The same with the requests served: callbacks and uploads.
ServingNext ==
    \/ CoreNext
    \/ \E r \in Readers : Callback(r)
    \/ ProcessUpload

vars == <<sysvars, aggvars, uivars>>

\* Part 2 at rest while the loader runs.
NoResult == [op |-> "none"]
AggIdle == table = <<>> /\ result = NoResult

\* login_layout.py, app.py: nobody logged in, no page routed yet.
NoSession == [authenticated |-> FALSE, user |-> "None", alert |-> FALSE,
              pathname |-> "/", event |-> "none", auth_event |-> "none",
              page |-> [layout |-> "none", pathname |-> "/", is_authenticated |-> FALSE]]

\* enhanced_public_landing.py:151-164: the dcc.Store and the dcc.Interval as
\* the layout creates them; no content rendered yet.
LayoutViewState == [view_type |-> "overview", current_vendor_index |-> 0, rotation_count |-> 0]
NoView == [state |-> LayoutViewState, n_intervals |-> 0, content |-> "none", calls |-> 0]

\* No upload processed: upload_history.json absent, no history rows shown.
NoUploads == [history |-> << >>, rows |-> << >>, outcome |-> "none", before |-> << >>,
              count |-> 0, faults |-> 0, persisted |-> 0]

UiIdle == session = NoSession /\ view = NoView /\ uploads = NoUploads

Init == SysInit /\ AggIdle /\ UiIdle
Next == CoreNext
Spec == Init /\ [][Next]_vars

\* The watcher threads are scheduled and time.sleep returns; requests that
\* call load_data keep arriving.
Fairness ==
    /\ \A w \in WatcherIds : WF_vars(WatcherStep(w))
    /\ WF_vars(ClientLoad(FALSE))

ServingSpec == Init /\ [][ServingNext]_vars /\ Fairness

\* ===================================================== claims C1 .. C8
\* C1 - Forced reload: a load_data(force_reload=True) made while the file is
\* readable clears the cached table, re-reads the file and leaves the file's
\* content cached, and a load_data(False) made after it returns the content
\* of that reload, not the table cached before it.
C1_ForcedReloadReplaces ==
    /\ (call.force /\ call.fileVer # 0) =>
          /\ call.outcome = "ok"
          /\ call.didRead
          /\ cache.some /\ cache.ver = call.fileVer
    /\ (~call.force /\ call.outcome # "none" /\ lastForcedVer > 0) =>
          /\ call.outcome = "ok"
          /\ call.ret.ver = lastForcedVer

\* C2 - File watcher trigger: a poll goes on to the forced reload exactly
\* when the file's modification time is strictly greater than
\* DATA_FILE_LAST_MODIFIED, and then records that time and calls
\* load_data(True); otherwise it neither calls load_data nor changes the
\* recorded time.
C2_WatcherTrigger ==
    [][\A w \in WatcherIds :
          /\ (watchers[w].pc = "poll" /\ watchers'[w] # watchers[w]) =>
                IF files[dataFile].exists /\ files[dataFile].mtime > lastModified
                THEN /\ watchers'[w].pc = "update"
                     /\ watchers'[w].cm = files[dataFile].mtime
                ELSE /\ watchers'[w].pc = "sleep"
                     /\ lastModified' = lastModified
                     /\ call' = call
                     /\ cache' = cache
          /\ (watchers[w].pc = "update" /\ watchers'[w] # watchers[w]) =>
                /\ lastModified' = watchers[w].cm
                /\ call'.force
                /\ watchers'[w].pc = "sleep"
          /\ (watchers[w].pc # "update" /\ watchers'[w].pc = "update") =>
                watchers[w].pc = "poll"
      ]_vars

\* A watcher has found the time advanced, recorded it and called the forced
\* reload.
C2_Witness ==
    \E w \in WatcherIds :
        /\ watchers[w].pc = "sleep"
        /\ watchers[w].raised
        /\ files[dataFile].exists
        /\ lastModified = files[dataFile].mtime
        /\ lastModified > 1
        /\ call.force

\* C5 - Cached singleton: a load_data(False) that finds a table cached returns
\* that very instance without reading the file, whatever the file holds by
\* then, and no read of the file happens after the read that produced the
\* cached table. (It holds with or without forced reloads in between.)
C5_CachedSingleton ==
    /\ (call.outcome # "none" /\ ~call.force /\ call.before.some) =>
          /\ call.outcome = "ok"
          /\ call.ret = call.before
          /\ ~call.didRead
          /\ cache = call.before
    /\ cache.some => reads = cache.inst

\* A cache hit while the file's content is no longer what was loaded, with no
\* forced reload requested so far.
C5_Witness ==
    /\ ~call.force
    /\ call.before.some
    /\ call.outcome = "ok"
    /\ call.fileVer # call.ret.ver
    /\ files[dataFile].ver # cache.ver
    /\ lastForcedVer = NoForced

\* C6 as stated - Load failure: whenever the data file is missing,
\* unparseable or lacks the Cluster column, a load_data() call raises, returns
\* no table and leaves no table cached.
C6_LoadFailureAlways ==
    (call.outcome # "none" /\ ~call.force /\ call.fileVer = 0) =>
        /\ call.outcome = "raise"
        /\ ~call.ret.some
        /\ ~cache.some

\* C6 amended - Load failure: when no table is cached and the data file is
\* missing, unparseable or lacks the Cluster column, load_data raises, returns
\* no table (no empty-table fallback) and leaves no table cached; and every
\* load_data() made while no table is cached attempts the read.
C6_LoadFailureUncached ==
    /\ (call.outcome # "none" /\ call.fileVer = 0 /\ ~call.before.some) =>
          /\ call.outcome = "raise"
          /\ ~call.ret.some
          /\ ~cache.some
    /\ (call.outcome # "none" /\ ~call.force /\ ~call.before.some) => call.didRead

\* Two reads were attempted and the second, as the first, failed: the retry
\* after a failure read the file again.
C6_Witness ==
    /\ reads >= 2
    /\ ~cache.some
    /\ ~call.force
    /\ call.outcome = "raise"
    /\ call.didRead
    /\ call.fileVer = 0

\* C7 - Watcher liveness under errors: no step of a watcher ends its loop; a
\* poll that raises (no modification time to read) and a forced reload that
\* raises both lead to time.sleep, and from there the next poll follows.
C7_WatcherSurvivesErrors ==
    [][\A w \in WatcherIds :
          /\ watchers'[w].pc # "dead"
          /\ (watchers[w].pc = "poll" /\ watchers'[w] # watchers[w]
                 /\ ~files[dataFile].exists) => watchers'[w].pc = "sleep"
          /\ (watchers[w].pc = "update" /\ watchers'[w] # watchers[w]
                 /\ call'.outcome = "raise") => watchers'[w].pc = "sleep"
          /\ (watchers[w].pc = "sleep" /\ watchers'[w] # watchers[w]) =>
                watchers'[w].pc = "poll"
      ]_vars

\* A watcher whose last try block raised has polled again and found the time
\* advanced.
C7_Witness ==
    \E w \in WatcherIds : watchers[w].pc = "update" /\ watchers[w].raised

\* C8 - Single watcher: at most one thread runs watch_data_file.
C8_SingleWatcher ==
    Cardinality({w \in WatcherIds : watchers[w].pc # "off"}) <= 1

\* C3 - Upload visibility: after a successful process_uploaded_file, as long
\* as the written CSV is the latest upload and still on disk, some load_data
\* call eventually returns the uploaded table.
C3_UploadVisible ==
    \A v \in 1..(MaxWrites + 1) :
        (upload = v) ~>
            \/ upload # v
            \/ files[UPLOAD_CSV].ver # v
            \/ (call.outcome = "ok" /\ call.ret.ver = v)

\* C4 - Snapshot discipline: a callback invoked after a forced reload of a
\* readable file computes from the table of that reload.
C4_NewReadersSeeReload ==
    (lastRead.reader # "none" /\ lastRead.afterReloadOf > 0) =>
        lastRead.table.ver = lastRead.afterReloadOf

\* ====================================================== Part 2: aggregation
\* ------------------------------------------------------------------ bounds
\* Number of rows of a table.
MaxRows == 2

\* --------------------------------------------------------------- the table
\* A dataframe: `dates` are the dates embedded in the names of its
\* 'Cumulative Quantity (<date>)' columns, in column order (a date is a number
\* of days after 2025-04-30); the columns Vendor, Cluster, ULB,
\* 'Quantity to be remediated in MT' (target) and
\* 'Quantity remediated upto 30th April 2025 in MT' (april) are always there.
\* A row holds one value per column; cum[d] is its value in the column of
\* date d.
ColumnLayouts == {<< >>, <<1>>, <<1, 2>>, <<2, 1>>}
KeyTriples == << <<"V1", "C1", "S1">>, <<"V1", "C2", "S2">>, <<"V2", "C2", "S1">> >>
TargetValues == {0, 3}
AprilValues == {0, 1}
CumValues == {0, 1}

Range(s) == {s[i] : i \in DOMAIN s}

RowsOf(layout) ==
    {[Vendor |-> KeyTriples[k][1], Cluster |-> KeyTriples[k][2], ULB |-> KeyTriples[k][3],
      target |-> t, april |-> a, cum |-> c] :
        k \in DOMAIN KeyTriples, t \in TargetValues, a \in AprilValues,
        c \in [Range(layout) -> CumValues]}

RECURSIVE SetToSeq(_)
\* The elements of a set, listed once each.
SetToSeq(S) ==
    IF S = {} THEN << >>
    ELSE LET x == CHOOSE y \in S : TRUE
         IN <<x>> \o SetToSeq(S \ {x})

\* The rows of each layout, listed.
RowList == [layout \in ColumnLayouts |-> SetToSeq(RowsOf(layout))]

RECURSIVE SortedIdx(_, _, _)
\* The non-decreasing sequences of n indices in lo..hi.
SortedIdx(n, lo, hi) ==
    IF n = 0 THEN {<< >>}
    ELSE UNION {{<<i>> \o s : s \in SortedIdx(n - 1, i, hi)} : i \in lo..hi}

\* The choices of at most MaxRows rows of a layout, as indices into RowList,
\* up to the order of the rows: every aggregation below sums or groups the
\* rows and none depends on their order.
RowChoices ==
    [layout \in ColumnLayouts |->
        UNION {SortedIdx(n, 1, Len(RowList[layout])) : n \in 0..MaxRows}]

TableOf(layout, idx) ==
    [dates |-> layout, rows |-> [j \in DOMAIN idx |-> RowList[layout][idx[j]]]]

\* A column of a dataframe: a dated cumulative-quantity column or the legacy
\* baseline column.
CumCol(d) == [name |-> "Cumulative Quantity", date |-> d]
LegacyCol == [name |-> "Quantity remediated upto 30th April 2025 in MT", date |-> 0]

\* data_processing.py:66  '2025-04-30', the date reported without dated column
DefaultLatestDate == 0

Mut_Cell_NoLegacy(r, col) == IF col = LegacyCol THEN 0 ELSE r.cum[col.date]

\* dataframe[col] for one row.
Cell(r, col) == IF col = LegacyCol THEN r.april ELSE r.cum[col.date]

\* [col for col in dataframe.columns if col.startswith('Cumulative Quantity')]
date_columns(df) == [i \in DOMAIN df.dates |-> CumCol(df.dates[i])]

\* ------------------------------------------------------------ float values
\* A float that is a ratio n/d, or one of the values a float division by
\* zero yields.
Num(n, d) == [kind |-> "num", n |-> n, d |-> d]
NaN == [kind |-> "nan", n |-> 0, d |-> 1]
Inf == [kind |-> "inf", n |-> 0, d |-> 1]
IsZero(x) == x.kind = "num" /\ x.n = 0

\* Element-wise division of two pandas columns of non-negative numbers: a
\* zero divisor gives inf, or NaN for 0/0, and raises nothing.
FDiv(a, b) == IF b # 0 THEN Num(a, b) ELSE IF a = 0 THEN NaN ELSE Inf

FMul100(x) == IF x.kind = "num" THEN Num(x.n * 100, x.d) ELSE x

RoundHalfEven(n, d) ==
    LET q == n \div d
        r == n % d
    IN IF 2 * r < d THEN q
       ELSE IF 2 * r > d THEN q + 1
       ELSE IF q % 2 = 0 THEN q ELSE q + 1

\* Series.round(1): the value in tenths.
Round1(x) == IF x.kind = "num" THEN Num(RoundHalfEven(x.n * 10, x.d), 10) ELSE x

\* ------------------------------------------------------------- group sums
RECURSIVE SumCol(_, _)
\* dataframe[col].sum() over a sequence of rows
SumCol(rows, col) ==
    IF rows = << >> THEN 0
    ELSE Cell(Head(rows), col) + SumCol(Tail(rows), col)

RECURSIVE SumTarget(_)
\* dataframe['Quantity to be remediated in MT'].sum()
SumTarget(rows) ==
    IF rows = << >> THEN 0
    ELSE Head(rows).target + SumTarget(Tail(rows))

\* The value of a row in the columns a groupby names.
ByVendor == <<"Vendor">>
ByCluster == <<"Cluster">>
ByUlbCluster == <<"ULB", "Cluster">>
KeyOf(r, by) == [i \in DOMAIN by |-> r[by[i]]]

Mut_GroupSums_First(rows, by, col) ==
    LET keys == {KeyOf(rows[i], by) : i \in DOMAIN rows}
    IN [k \in keys |->
          LET sel == SelectSeq(rows, LAMBDA r : KeyOf(r, by) = k)
          IN [target |-> Head(sel).target, latest |-> Cell(Head(sel), col)]]

\* dataframe.groupby(by).agg({target: 'sum', col: 'sum'}): one entry per key
\* value present, with the two sums.
GroupSums(rows, by, col) ==
    LET keys == {KeyOf(rows[i], by) : i \in DOMAIN rows}
    IN [k \in keys |->
          LET sel == SelectSeq(rows, LAMBDA r : KeyOf(r, by) = k)
          IN [target |-> SumTarget(sel), latest |-> SumCol(sel, col)]]

\* data_processing.py:86-93 (and 102-109, 118-125, 170-178): 'Percent
\* Complete' starts as 0.0 and is computed, rounded to one decimal, for the
\* groups whose target is positive.
guarded_percent(sums) ==
    [k \in DOMAIN sums |->
        [target |-> sums[k].target, latest |-> sums[k].latest,
         pct |-> IF sums[k].target > 0
                 THEN Round1(FMul100(FDiv(sums[k].latest, sums[k].target)))
                 ELSE Num(0, 10)]]

Mut_overall_percent_Unguarded(remediated, total) ==
    FMul100(FDiv(remediated, total))

\* data_processing.py:72-74: percent_complete, 0 unless the total is positive.
overall_percent(remediated, total) ==
    IF total > 0 THEN FMul100(FDiv(remediated, total)) ELSE Num(0, 1)

\* data_processing.py:51-137
get_dashboard_metrics(df) ==
    LET total_to_remediate == SumTarget(df.rows)
        cols == date_columns(df)
        latest_date_col == IF cols # << >> THEN cols[Len(cols)] ELSE LegacyCol
        latest_date == IF latest_date_col # LegacyCol
                       THEN latest_date_col.date ELSE DefaultLatestDate
        total_remediated_latest == SumCol(df.rows, latest_date_col)
    IN [total_to_remediate |-> total_to_remediate,
        total_remediated |-> total_remediated_latest,
        percent_complete |-> overall_percent(total_remediated_latest, total_to_remediate),
        april_remediated |-> SumCol(df.rows, LegacyCol),
        latest_date |-> latest_date,
        latest_date_col |-> latest_date_col,
        vendor_stats |-> guarded_percent(GroupSums(df.rows, ByVendor, latest_date_col)),
        cluster_stats |-> guarded_percent(GroupSums(df.rows, ByCluster, latest_date_col)),
        ulb_stats |-> guarded_percent(GroupSums(df.rows, ByUlbCluster, latest_date_col))]

\* data_processing.py:160-180
get_vendor_statistics(df, latest_date_col) ==
    guarded_percent(GroupSums(df.rows, ByVendor, latest_date_col))

\* data_processing.py:236-261: the last dated column is taken without a
\* fallback, and the percentage is the plain column division.
get_geospatial_data(df) ==
    LET cols == date_columns(df)
    IN IF cols = << >>
       THEN [raised |-> TRUE, groups |-> << >>]
       ELSE LET sums == GroupSums(df.rows, ByUlbCluster, cols[Len(cols)])
            IN [raised |-> FALSE,
                groups |-> [k \in DOMAIN sums |->
                              [target |-> sums[k].target, latest |-> sums[k].latest,
                               pct |-> FMul100(FDiv(sums[k].latest, sums[k].target))]]]

\* charts.py:560-580: vendor_metrics of create_vendor_performance_radar.
vendor_performance_metrics(df) ==
    LET cols == date_columns(df)
    IN IF cols = << >>
       THEN [raised |-> TRUE, groups |-> << >>]
       ELSE LET sums == GroupSums(df.rows, ByVendor, cols[Len(cols)])
            IN [raised |-> FALSE,
                groups |-> [k \in DOMAIN sums |->
                              [target |-> sums[k].target, latest |-> sums[k].latest,
                               pct |-> Round1(FMul100(FDiv(sums[k].latest,
                                                           sums[k].target)))]]]

\* ---------------------------------------------------------------- actions
\* The columns a caller can name as latest_date_col.
ColumnsOf(df) == {LegacyCol} \cup {CumCol(d) : d \in Range(df.dates)}

\* The loader at rest while aggregations are computed.
SysIdle ==
    /\ production = FALSE
    /\ asScript = FALSE
    /\ dataFile = DEFAULT_DATA_FILE
    /\ clock = 1
    /\ files = [q \in Paths |-> MissingFile]
    /\ cache = NoTable
    /\ reads = 0
    /\ phase = "boot"
    /\ requested = FALSE
    /\ captured = [r \in Readers |-> NoTable]
    /\ lastRead = [reader |-> "none", table |-> NoTable, afterReloadOf |-> NoForced]
    /\ watchers = [w \in WatcherIds |-> WatcherOff]
    /\ lastModified = InitialLastModified
    /\ call = NoCall
    /\ lastForcedVer = NoForced
    /\ upload = 0

AggInit ==
    /\ SysIdle
    /\ UiIdle
    /\ \E layout \in ColumnLayouts : \E idx \in RowChoices[layout] :
          table = TableOf(layout, idx)
    /\ result = NoResult

GetDashboardMetrics ==
    /\ result' = [op |-> "get_dashboard_metrics", raised |-> FALSE,
                  value |-> get_dashboard_metrics(table)]
    /\ UNCHANGED <<table, sysvars, uivars>>

GetVendorStatistics ==
    /\ \E col \in ColumnsOf(table) :
          result' = [op |-> "get_vendor_statistics", raised |-> FALSE,
                     value |-> get_vendor_statistics(table, col)]
    /\ UNCHANGED <<table, sysvars, uivars>>

GetGeospatialData ==
    /\ LET g == get_geospatial_data(table)
       IN result' = [op |-> "get_geospatial_data", raised |-> g.raised,
                     value |-> g.groups]
    /\ UNCHANGED <<table, sysvars, uivars>>

CreateVendorPerformanceRadar ==
    /\ LET g == vendor_performance_metrics(table)
       IN result' = [op |-> "create_vendor_performance_radar", raised |-> g.raised,
                     value |-> g.groups]
    /\ UNCHANGED <<table, sysvars, uivars>>

AggNext ==
    \/ GetDashboardMetrics
    \/ GetVendorStatistics
    \/ GetGeospatialData
    \/ CreateVendorPerformanceRadar

AggSpec == AggInit /\ [][AggNext]_vars

\* ========================================================= Part 3: filters
\* The callbacks of register_dashboard_callbacks compute from df, the table
\* bound at registration; they read the Vendor, Cluster and ULB of its rows
\* and the names of its columns, so the quantities are held at one value.
FilterRows(layout) ==
    {r \in RowsOf(layout) :
        /\ r.target = 3
        /\ r.april = 0
        /\ \A d \in DOMAIN r.cum : r.cum[d] = 1}

FilterRowList == [layout \in ColumnLayouts |-> SetToSeq(FilterRows(layout))]

FilterRowChoices ==
    [layout \in ColumnLayouts |->
        UNION {SortedIdx(n, 1, Len(FilterRowList[layout])) : n \in 0..MaxRows}]

FilterTableOf(layout, idx) ==
    [dates |-> layout, rows |-> [j \in DOMAIN idx |-> FilterRowList[layout][idx[j]]]]

\* The value of a multi-select dropdown: None, or a list of distinct values.
NoneSel == [none |-> TRUE, vals |-> << >>]
ListSel(s) == [none |-> FALSE, vals |-> s]
Distinct(s) == \A i, j \in DOMAIN s : i # j => s[i] # s[j]
Selections(S) ==
    {NoneSel} \cup
    {ListSel(s) : s \in {t \in UNION {[1..n -> S] : n \in 0..Cardinality(S)} : Distinct(t)}}

Vendors == {KeyTriples[i][1] : i \in DOMAIN KeyTriples}
Clusters == {KeyTriples[i][2] : i \in DOMAIN KeyTriples}
Sites == {KeyTriples[i][3] : i \in DOMAIN KeyTriples}

Mut_Truthy_Always(sel) == TRUE

\* `if selected and len(selected) > 0`
Truthy(sel) == ~sel.none /\ Len(sel.vals) > 0

Mut_isin_NoFilter(rows, col, vals) == rows

\* filtered_df[filtered_df[col].isin(vals)]
isin(rows, col, vals) == SelectSeq(rows, LAMBDA r : r[col] \in Range(vals))

\* filtered_df[col].unique(), which sorted() then orders
Unique(rows, col) == {rows[i][col] : i \in DOMAIN rows}

\* The valid selections without the first of them (a variant).
Mut_StillValid_DropFirst(selected, available) ==
    LET v == SelectSeq(selected, LAMBDA c : c \in available)
    IN  IF v = << >> THEN v ELSE Tail(v)

Mut_StillValid_KeepAll(selected, available) == selected

\* [c for c in selected if c in available]
StillValid(selected, available) == SelectSeq(selected, LAMBDA c : c \in available)

\* update_filter_options checking the site selection against the sites of
\* the selected vendors, whatever the clusters (a variant).
Mut_update_filter_options_SitesByVendor(df, selected_vendors, selected_clusters, selected_sites) ==
    LET byVendor == IF Truthy(selected_vendors)
                    THEN isin(df.rows, "Vendor", selected_vendors.vals)
                    ELSE df.rows
        available_clusters == Unique(byVendor, "Cluster")
        valid_clusters == StillValid(selected_clusters.vals, available_clusters)
        clusters_out == IF Truthy(selected_clusters)
                        THEN ListSel(valid_clusters)
                        ELSE selected_clusters
        available_sites == Unique(byVendor, "ULB")
        sites_out == IF Truthy(selected_sites)
                     THEN ListSel(StillValid(selected_sites.vals, available_sites))
                     ELSE selected_sites
    IN [cluster_options |-> available_clusters,
        cluster_value |-> clusters_out,
        site_options |-> available_sites,
        site_value |-> sites_out]

\* dashboard_callbacks.py:43-91
update_filter_options(df, selected_vendors, selected_clusters, selected_sites) ==
    LET byVendor == IF Truthy(selected_vendors)
                    THEN isin(df.rows, "Vendor", selected_vendors.vals)
                    ELSE df.rows
        available_clusters == Unique(byVendor, "Cluster")
        valid_clusters == StillValid(selected_clusters.vals, available_clusters)
        byCluster == IF Truthy(selected_clusters) /\ valid_clusters # << >>
                     THEN isin(byVendor, "Cluster", valid_clusters)
                     ELSE byVendor
        clusters_out == IF Truthy(selected_clusters)
                        THEN ListSel(valid_clusters)
                        ELSE selected_clusters
        available_sites == Unique(byCluster, "ULB")
        sites_out == IF Truthy(selected_sites)
                     THEN ListSel(StillValid(selected_sites.vals, available_sites))
                     ELSE selected_sites
    IN [cluster_options |-> available_clusters,
        cluster_value |-> clusters_out,
        site_options |-> available_sites,
        site_value |-> sites_out]

\* Each behaviour is one invocation of a callback, with the table as df.
FilterInit ==
    /\ SysIdle
    /\ UiIdle
    /\ \E layout \in ColumnLayouts : \E idx \in FilterRowChoices[layout] :
          table = FilterTableOf(layout, idx)
    /\ result = NoResult

UpdateFilterOptions ==
    /\ result = NoResult
    /\ \E sv \in Selections(Vendors), sc \in Selections(Clusters), ss \in Selections(Sites) :
          result' = [op |-> "update_filter_options",
                     vendors |-> sv, clusters |-> sc, sites |-> ss,
                     value |-> update_filter_options(table, sv, sc, ss)]
    /\ UNCHANGED <<table, sysvars, uivars>>

\* dashboard_callbacks.py:109  '2025-05-01', in days after 2025-04-30
DefaultStartDate == 1
\* dashboard_callbacks.py:115  '2025-05-12', in days after 2025-04-30
FallbackLatestDate == 12

\* dashboard_callbacks.py:102-121
reset_filters(df, n_clicks) ==
    IF n_clicks > 0
    THEN LET cols == date_columns(df)
         IN [updated |-> TRUE,
             vendors |-> ListSel(<< >>), clusters |-> ListSel(<< >>),
             sites |-> ListSel(<< >>),
             start_date |-> DefaultStartDate,
             end_date |-> IF cols # << >> THEN cols[Len(cols)].date
                          ELSE FallbackLatestDate]
    ELSE [updated |-> FALSE]

\* The dates the date picker can hand to update_dashboard, in days after
\* 2025-04-30. The callback compares the 'YYYY-MM-DD' strings, which orders
\* them as the dates.
PickerDates == 0..3

\* start_date <= date_str <= end_date
InRange(start_date, d, end_date) == start_date <= d /\ d <= end_date

\* dashboard_callbacks.py:135-164: the rows and the dated columns that
\* update_dashboard hands to its charts.
update_dashboard(df, vendors, clusters, sites, start_date, end_date) ==
    LET f1 == IF Truthy(vendors) THEN isin(df.rows, "Vendor", vendors.vals) ELSE df.rows
        f2 == IF Truthy(clusters) THEN isin(f1, "Cluster", clusters.vals) ELSE f1
        f3 == IF Truthy(sites) THEN isin(f2, "ULB", sites.vals) ELSE f2
        cols == date_columns(df)
        in_range == SelectSeq(cols, LAMBDA c : InRange(start_date, c.date, end_date))
    IN [filtered_df |-> [dates |-> df.dates, rows |-> f3],
        filtered_date_columns |->
            IF in_range = << >> /\ cols # << >> THEN <<cols[Len(cols)]>> ELSE in_range]

ResetFilters ==
    /\ result = NoResult
    /\ \E n_clicks \in 0..1 :
          result' = [op |-> "reset_filters", n_clicks |-> n_clicks,
                     value |-> reset_filters(table, n_clicks)]
    /\ UNCHANGED <<table, sysvars, uivars>>

UpdateDashboard ==
    /\ result = NoResult
    /\ \E sv \in Selections(Vendors), sc \in Selections(Clusters), ss \in Selections(Sites),
          sd \in PickerDates, ed \in PickerDates :
          result' = [op |-> "update_dashboard",
                     vendors |-> sv, clusters |-> sc, sites |-> ss,
                     start_date |-> sd, end_date |-> ed,
                     value |-> update_dashboard(table, sv, sc, ss, sd, ed)]
    /\ UNCHANGED <<table, sysvars, uivars>>

FilterNext ==
    \/ UpdateFilterOptions
    \/ ResetFilters
    \/ UpdateDashboard

FilterSpec == FilterInit /\ [][FilterNext]_vars

\* ==================================================== Part 4: daily series
Mut_DailyTotals_FirstRow(rows, cols) ==
    [i \in DOMAIN cols |->
        [Date |-> cols[i].date,
         total |-> IF rows = << >> THEN 0 ELSE Cell(Head(rows), cols[i])]]

\* data_processing.py:152-156: one {'Date', 'Total Remediated (MT)'} entry
\* per column of cols, in the order of cols, with the column's sum over rows.
DailyTotals(rows, cols) ==
    [i \in DOMAIN cols |-> [Date |-> cols[i].date, total |-> SumCol(rows, cols[i])]]

\* data_processing.py:140-158
get_daily_progress(df) == DailyTotals(df.rows, date_columns(df))

\* data_processing.py:182-207: a series per vendor of dataframe['Vendor'].unique()
get_vendor_progress(df) ==
    [v \in Unique(df.rows, "Vendor") |->
        DailyTotals(SelectSeq(df.rows, LAMBDA r : r.Vendor = v), date_columns(df))]

\* data_processing.py:209-234: a series per cluster
get_cluster_progress(df) ==
    [c \in Unique(df.rows, "Cluster") |->
        DailyTotals(SelectSeq(df.rows, LAMBDA r : r.Cluster = c), date_columns(df))]

RECURSIVE InsertByDate(_, _)
\* An entry put into a series sorted by Date, after the entries of its date.
InsertByDate(e, s) ==
    IF s = << >> THEN <<e>>
    ELSE IF e.Date < Head(s).Date THEN <<e>> \o s
    ELSE <<Head(s)>> \o InsertByDate(e, Tail(s))

RECURSIVE SortByDate(_)
\* daily_data.sort_values('Date')
SortByDate(s) ==
    IF s = << >> THEN << >>
    ELSE InsertByDate(s[Len(s)], SortByDate(SubSeq(s, 1, Len(s) - 1)))

\* charts.py:93-150: the figure of create_daily_progress_chart, as its title
\* and the points it plots; filtered_date_columns is None or a list.
create_daily_progress_chart(df, filtered_date_columns) ==
    LET cols == IF filtered_date_columns.none \/ filtered_date_columns.vals = << >>
                THEN date_columns(df)
                ELSE filtered_date_columns.vals
    IN IF cols = << >>
       THEN [raised |-> FALSE, title |-> "No date data available", points |-> << >>]
       ELSE [raised |-> FALSE, title |-> "",
             points |-> SortByDate(DailyTotals(df.rows, cols))]

GetDailyProgress ==
    /\ result = NoResult
    /\ result' = [op |-> "get_daily_progress", raised |-> FALSE,
                  value |-> get_daily_progress(table)]
    /\ UNCHANGED <<table, sysvars, uivars>>

GetVendorProgress ==
    /\ result = NoResult
    /\ result' = [op |-> "get_vendor_progress", raised |-> FALSE,
                  value |-> get_vendor_progress(table)]
    /\ UNCHANGED <<table, sysvars, uivars>>

GetClusterProgress ==
    /\ result = NoResult
    /\ result' = [op |-> "get_cluster_progress", raised |-> FALSE,
                  value |-> get_cluster_progress(table)]
    /\ UNCHANGED <<table, sysvars, uivars>>

CreateDailyProgressChart ==
    /\ result = NoResult
    /\ LET fig == create_daily_progress_chart(table, NoneSel)
       IN result' = [op |-> "create_daily_progress_chart", raised |-> fig.raised,
                     value |-> fig]
    /\ UNCHANGED <<table, sysvars, uivars>>

SeriesNext ==
    \/ GetDailyProgress
    \/ GetVendorProgress
    \/ GetClusterProgress
    \/ CreateDailyProgressChart

\* Each behaviour is one call of a series function on a table.
SeriesSpec == AggInit /\ [][SeriesNext]_vars

\* ===================================================== Part 5: shared table
\* The operations that are handed the shared cached table.
SharedOps ==
    {"get_dashboard_metrics", "get_daily_progress", "update_filter_options",
     "update_dashboard", "reset_filters", "update_public_landing_content"}

Mut_df_after_InPlaceFilter(op, df) ==
    IF op \in {"update_filter_options", "update_dashboard"}
    THEN [df EXCEPT !.rows = SelectSeq(df.rows, LAMBDA r : r.Vendor = KeyTriples[1][1])]
    ELSE df

\* The content of the table an operation was handed, once the operation has
\* returned. get_dashboard_metrics, get_daily_progress and the public content
\* builders only read it (sum, groupby, boolean indexing, which build new
\* frames) and assign into the frames they derived; update_filter_options and
\* update_dashboard work on df.copy() and rebind filtered_df; reset_filters
\* reads df.columns.
df_after(op, df) == df

SharedCall(op) ==
    /\ result' = [op |-> op]
    /\ table' = df_after(op, table)
    /\ UNCHANGED <<sysvars, uivars>>

SharedNext == \E op \in SharedOps : SharedCall(op)

\* Any sequence of calls on one loaded table.
SharedSpec == AggInit /\ [][SharedNext]_vars

\* ==================================================== Part 6: login and routing
\* Python's None for a Dash input that was never touched.
None == "None"

\* auth.py:38 - the default salt.
Salt == "swaccha_andhra_default_salt"

\* auth.py:28 - the salted SHA-256 digest: the digest of a string is
\* determined by the string and differs for different strings.
sha256(s) == <<"sha256", s>>

\* auth.py:74-93 - the default users.
users == <<
    [id |-> "user1", username |-> "admin",         password_hash |-> sha256(<<"password123", Salt>>)],
    [id |-> "user2", username |-> "user",          password_hash |-> sha256(<<"password456", Salt>>)],
    [id |-> "user3", username |-> "test@test.com", password_hash |-> sha256(<<"@password!", Salt>>)] >>

\* The values typed into the login form: None for an untouched field.
Usernames == {None, "admin", "user", "guest"}
Passwords == {None, "password123", "password456", "letmein"}

\* auth.py:17-29 - User.check_password: password + salt raises TypeError
\* when password is None.
check_password(user, password) ==
    IF password = None
    THEN [raised |-> TRUE, value |-> FALSE]
    ELSE [raised |-> FALSE, value |-> sha256(<<password, Salt>>) = user.password_hash]

RECURSIVE validate_from(_, _, _)
\* auth.py:123-126 - the loop over users from position i; `and`
\* short-circuits, so check_password runs only for a matching username.
validate_from(i, username, password) ==
    IF i > Len(users)
    THEN [raised |-> FALSE, user |-> None]
    ELSE IF users[i].username # username
    THEN validate_from(i + 1, username, password)
    ELSE LET c == check_password(users[i], password)
         IN  IF c.raised THEN [raised |-> TRUE, user |-> None]
             ELSE IF c.value THEN [raised |-> FALSE, user |-> users[i].id]
             ELSE validate_from(i + 1, username, password)

\* auth.py:112-126
validate_user(username, password) == validate_from(1, username, password)

\* display_page serving the dashboard at '/dashboard' to anybody (a variant).
Mut_display_page_OpenDashboard(pathname, is_authenticated) ==
    IF pathname = "/" THEN (IF ~is_authenticated THEN "public_landing" ELSE "dashboard")
    ELSE IF pathname = "/login" THEN "login"
    ELSE IF pathname = "/dashboard" THEN "dashboard"
    ELSE "404"

\* main_layout.py:250-272 - the name of the layout returned.
display_page(pathname, is_authenticated) ==
    IF pathname = "/" THEN (IF ~is_authenticated THEN "public_landing" ELSE "dashboard")
    ELSE IF pathname = "/login" THEN "login"
    ELSE IF pathname = "/dashboard" THEN (IF is_authenticated THEN "dashboard" ELSE "login")
    ELSE "404"

\* auth_callbacks.py:40-61 - the outputs and the user handed to login_user
\* (None when login_user is not called); raised when validate_user raises.
login_callback(n_clicks, username, password) ==
    IF n_clicks = 0
    THEN [raised |-> FALSE, login_user |-> None, is_open |-> FALSE, pathname |-> "/login"]
    ELSE LET v == validate_user(username, password)
         IN  IF v.raised
             THEN [raised |-> TRUE, login_user |-> None, is_open |-> FALSE, pathname |-> "/login"]
             ELSE IF v.user # None
             THEN [raised |-> FALSE, login_user |-> v.user, is_open |-> FALSE, pathname |-> "/dashboard"]
             ELSE [raised |-> FALSE, login_user |-> None, is_open |-> TRUE, pathname |-> "/login"]

\* auth_callbacks.py:69-81 - whether logout_user is called, and the redirect.
logout_callback(n_clicks) ==
    [logout_user |-> n_clicks > 0, pathname |-> "/"]

\* The URLs a browser asks for.
Pathnames == {"/", "/login", "/dashboard", "/reports"}

\* n_clicks of a button: 0 stands for None (never clicked), 1 for a click.
Clicks == {0, 1}

\* No data is loaded and no other page is in use.
AuthInit == SysIdle /\ AggIdle /\ UiIdle

\* auth_callbacks.py:24-29 - route_page: the url changes to p and the
\* page content is replaced by the layout display_page returns; a freshly
\* created login layout has its alert closed (login_layout.py:35).
RoutePage(p) ==
    /\ session' = [session EXCEPT
            !.pathname = p,
            !.alert = FALSE,
            !.event = "route",
            !.page = [layout |-> display_page(p, session.authenticated),
                      pathname |-> p,
                      is_authenticated |-> session.authenticated]]
    /\ UNCHANGED <<sysvars, aggvars, view, uploads>>

\* auth_callbacks.py:32-61 - the login button of the login layout fires
\* login_callback with the form's values. A callback that raises updates no
\* output.
LoginCallback(n_clicks, username, password) ==
    /\ session.page.layout = "login"
    /\ LET r == login_callback(n_clicks, username, password)
           outcome == IF n_clicks = 0 THEN "login_unclicked"
                      ELSE IF r.raised THEN "login_raised"
                      ELSE IF r.login_user # None THEN "login_ok"
                      ELSE "login_failed"
       IN  session' = [session EXCEPT
                !.authenticated = IF r.login_user # None THEN TRUE ELSE @,
                !.user = IF r.login_user # None THEN r.login_user ELSE @,
                !.alert = IF r.raised THEN @ ELSE r.is_open,
                !.pathname = IF r.raised THEN @ ELSE r.pathname,
                !.event = outcome,
                !.auth_event = IF n_clicks = 0 THEN @ ELSE outcome]
    /\ UNCHANGED <<sysvars, aggvars, view, uploads>>

\* auth_callbacks.py:64-81 - the logout button of the dashboard layout fires
\* logout_callback.
LogoutCallback(n_clicks) ==
    /\ session.page.layout = "dashboard"
    /\ LET r == logout_callback(n_clicks)
       IN  session' = [session EXCEPT
                !.authenticated = IF r.logout_user THEN FALSE ELSE @,
                !.user = IF r.logout_user THEN None ELSE @,
                !.pathname = r.pathname,
                !.event = IF n_clicks = 0 THEN "logout_unclicked" ELSE "logout",
                !.auth_event = IF n_clicks = 0 THEN @ ELSE "logout"]
    /\ UNCHANGED <<sysvars, aggvars, view, uploads>>

AuthNext ==
    \/ \E p \in Pathnames : RoutePage(p)
    \/ \E n \in Clicks, u \in Usernames, pw \in Passwords : LoginCallback(n, u, pw)
    \/ \E n \in Clicks : LogoutCallback(n)

AuthSpec == AuthInit /\ [][AuthNext]_vars

\* ==================================================== Part 7: public landing rotation
\* The order Python's string comparison gives the names of the data model.
Alphabetical == <<"C1", "C2", "S1", "S2", "V1", "V2">>

\* sorted(...) of a set of names.
sorted(S) == SelectSeq(Alphabetical, LAMBDA x : x \in S)

\* enhanced_public_callbacks.py:32 - the vendors of the table captured at
\* registration.
rotation_vendors(df) == sorted(Unique(df.rows, "Vendor"))

\* n_intervals is None.
NoIntervals == -1

\* The number of interval ticks explored.
MaxTicks == 3

\* The rotation stepping over every other vendor (a variant).
Mut_next_vendor_index_Skip(current_vendor_index, n) == (current_vendor_index + 2) % n

\* enhanced_public_callbacks.py:85
next_vendor_index(current_vendor_index, n) == (current_vendor_index + 1) % n

\* enhanced_public_callbacks.py:53-102 - current_state is << >> for None and
\* <<state>> otherwise; content is "overview" or the vendor's name; raised
\* for the IndexError of vendors[0] and the ZeroDivisionError of % 0.
update_public_landing_content(vendors, n_intervals, current_state) ==
    LET cs == IF current_state = << >>
              THEN [view_type |-> "overview", current_vendor_index |-> 0, rotation_count |-> 0]
              ELSE current_state[1]
        n == Len(vendors)
    IN  IF n_intervals = NoIntervals \/ cs.view_type = "overview"
        THEN IF n_intervals = NoIntervals
             THEN [raised |-> FALSE, content |-> "overview", state |-> cs]
             ELSE IF n = 0
             THEN [raised |-> TRUE, content |-> "none", state |-> cs]
             ELSE [raised |-> FALSE, content |-> vendors[1],
                   state |-> [view_type |-> "vendor", current_vendor_index |-> 0,
                              rotation_count |-> cs.rotation_count + 1]]
        ELSE IF n = 0
        THEN [raised |-> TRUE, content |-> "none", state |-> cs]
        ELSE LET next == next_vendor_index(cs.current_vendor_index, n)
             IN  IF next = 0
                 THEN [raised |-> FALSE, content |-> "overview",
                       state |-> [view_type |-> "overview", current_vendor_index |-> 0,
                                  rotation_count |-> cs.rotation_count + 1]]
                 ELSE [raised |-> FALSE, content |-> vendors[next + 1],
                       state |-> [view_type |-> "vendor", current_vendor_index |-> next,
                                  rotation_count |-> cs.rotation_count + 1]]

\* The callback's outputs applied to the page; a callback that raises
\* updates nothing.
Rendered(n_intervals) ==
    LET r == update_public_landing_content(rotation_vendors(table), n_intervals, <<view.state>>)
    IN  [state |-> IF r.raised THEN view.state ELSE r.state,
         n_intervals |-> n_intervals,
         content |-> IF r.raised THEN view.content ELSE r.content,
         calls |-> view.calls + 1]

\* The landing page is rendered: Dash invokes the callback with the values
\* the layout created (enhanced_public_landing.py:151-164).
PageLoad ==
    /\ view.calls = 0
    /\ view' = Rendered(view.n_intervals)
    /\ UNCHANGED <<sysvars, aggvars, session, uploads>>

\* The interval fires: n_intervals grows by one and the callback runs.
Tick ==
    /\ view.calls > 0
    /\ view.n_intervals < MaxTicks
    /\ view' = Rendered(view.n_intervals + 1)
    /\ UNCHANGED <<sysvars, aggvars, session, uploads>>

RotationNext == PageLoad \/ Tick

RotationSpec == FilterInit /\ [][RotationNext]_vars

\* ==================================================== Part 8: the upload page
\* A file name as the parts the pattern of uploader_callbacks.py:104 takes
\* apart: the text before the date, DD, MM, YYYY and the text after it.
Stems == {"Legacy Waste Status_", "Waste Status_"}
Tails == {".xlsx", ".xlsx.xls", ".xlsx.tmp", ".csv"}
Days == {15, 30, 31}
Months == {2, 6, 13}
Years == {2026, 2027}
Filenames == [stem : Stems, day : Days, month : Months, year : Years, tail : Tails]

\* datetime.now() at the time of the upload, as <<year, month, day>>.
Now == <<2026, 6, 15>>

\* uploader_callbacks.py:179 - the columns the commented-out check names.
required_columns == {"Vendor", "Cluster", "ULB", "Quantity to be remediated in MT"}

\* The upload component's contents: << >> for None, else one record saying
\* whether the bytes are an Excel workbook and which columns it has.
Contents ==
    {<< >>} \cup
    {<<[excel |-> e, columns |-> c]>> :
        e \in BOOLEAN, c \in {required_columns, required_columns \ {"Vendor"}}}

\* uploader_callbacks.py:104-106 - re.match anchors the pattern at the start
\* of the name only: any text may follow '.xlsx'.
re_match(filename) ==
    /\ filename.stem = "Legacy Waste Status_"
    /\ filename.tail \in {".xlsx", ".xlsx.xls", ".xlsx.tmp"}

\* The days of a month of the Gregorian calendar.
DaysIn(year, month) ==
    IF month \in {4, 6, 9, 11} THEN 30
    ELSE IF month = 2
    THEN (IF year % 4 = 0 /\ (year % 100 # 0 \/ year % 400 = 0) THEN 29 ELSE 28)
    ELSE 31

\* uploader_callbacks.py:127, 145 - datetime(year, month, day) raises
\* ValueError for a date that does not exist.
ValueError(filename) ==
    \/ filename.month \notin 1..12
    \/ filename.day \notin 1..DaysIn(filename.year, filename.month)

\* uploader_callbacks.py:130 - file_date > datetime.now(); file_date is
\* midnight of the day, so today is not in the future.
InFuture(filename) ==
    LET d == <<filename.year, filename.month, filename.day>>
    IN  \/ d[1] > Now[1]
        \/ d[1] = Now[1] /\ d[2] > Now[2]
        \/ d[1] = Now[1] /\ d[2] = Now[2] /\ d[3] > Now[3]

\* uploader_callbacks.py:33-61 - parse_contents: an error for a name that
\* ends in neither .xlsx nor .xls and for bytes pd.read_excel cannot read.
parse_contents(contents, filename) ==
    IF filename.tail \in {".xlsx", ".xlsx.xls"}
    THEN IF contents[1].excel
         THEN [error |-> FALSE, columns |-> contents[1].columns]
         ELSE [error |-> TRUE, columns |-> {}]
    ELSE [error |-> TRUE, columns |-> {}]

\* The outputs of a rejected upload (uploader_callbacks.py:107-119).
Rejected ==
    [color |-> "danger", is_open |-> TRUE, disabled |-> TRUE,
     file_info |-> << >>, contents |-> << >>]

\* uploader_callbacks.py:83-218 - file_info and contents are << >> for None.
validate_uploaded_file(contents, filename) ==
    IF contents = << >>
    THEN [color |-> "info", is_open |-> FALSE, disabled |-> TRUE,
          file_info |-> << >>, contents |-> << >>]
    ELSE IF ~re_match(filename) THEN Rejected
    ELSE IF ValueError(filename) THEN Rejected
    ELSE IF InFuture(filename) THEN Rejected
    ELSE LET p == parse_contents(contents, filename)
         IN  IF p.error THEN Rejected
             ELSE [color |-> "success", is_open |-> TRUE, disabled |-> FALSE,
                   file_info |-> <<[filename |-> filename, contents |-> contents,
                                    columns |-> p.columns]>>,
                   contents |-> contents]

\* The upload component delivers a file to validate_uploaded_file.
ValidateUploadedFile ==
    /\ result = NoResult
    /\ \E contents \in Contents, filename \in Filenames :
           result' = [op |-> "validate_uploaded_file", contents |-> contents,
                      filename |-> filename,
                      value |-> validate_uploaded_file(contents, filename)]
    /\ UNCHANGED <<table, sysvars, uivars>>

ValidateSpec == AuthInit /\ [][ValidateUploadedFile]_vars

\* uploader_callbacks.py:371 - history[:20]
HistoryLimit == 20

\* uploader_callbacks.py:389 - history_rows[:10]
RowsLimit == 10

\* The number of uploads processed, and of those whose history file could
\* not be written.
MaxUploads == 22
MaxHistoryFaults == 1

\* s[:n]
slice(s, n) == SubSeq(s, 1, IF Len(s) < n THEN Len(s) ELSE n)

\* The new entry put after the others (a variant).
Mut_insert0_Append(s, e) == Append(s, e)

\* history.insert(0, e) and [new_row] + existing_rows
insert0(s, e) == <<e>> \o s

\* What can go wrong in the file system during a call: nothing, saving the
\* workbook (259-275), converting it (278-316), anything else inside the
\* outer try (393-406), reading or writing upload_history.json (347-377).
Faults == {"none", "save", "convert", "outer", "history"}

\* uploader_callbacks.py:234-406 - the status shown, the rows returned and
\* the content of upload_history.json after the call; no_update when
\* nothing is returned to the page.
process_uploaded_file(n_clicks, file_info, existing_rows, history, upload_time, fault) ==
    IF n_clicks = 0 \/ file_info = << >>
    THEN [no_update |-> TRUE, color |-> "none", rows |-> existing_rows, history |-> history]
    ELSE IF fault \in {"save", "convert", "outer"}
    THEN [no_update |-> FALSE, color |-> "danger", rows |-> existing_rows, history |-> history]
    ELSE LET history_rows == insert0(existing_rows, upload_time)
             history_data == [filename |-> file_info[1].filename, upload_time |-> upload_time]
         IN  [no_update |-> FALSE, color |-> "success",
              rows |-> slice(history_rows, RowsLimit),
              history |-> IF fault = "history" THEN history
                          ELSE slice(insert0(history, history_data), HistoryLimit)]

\* A validated file waiting in the upload-file-info store.
ValidFileInfo ==
    <<[filename |-> [stem |-> "Legacy Waste Status_", day |-> 15, month |-> 6,
                     year |-> 2026, tail |-> ".xlsx"]]>>

\* The process button fires process_uploaded_file with the stored file_info
\* and the rows on the page; upload_time is the clock, later at every call
\* that gets that far.
ProcessUploadedFile(n_clicks, file_info, fault) ==
    /\ uploads.count < MaxUploads
    /\ fault = "history" => uploads.faults < MaxHistoryFaults
    /\ LET r == process_uploaded_file(n_clicks, file_info, uploads.rows, uploads.history,
                                      uploads.count + 1, fault)
       IN  uploads' =
               IF r.no_update
               THEN [uploads EXCEPT !.outcome = "no_update"]
               ELSE [history |-> r.history,
                     rows |-> r.rows,
                     outcome |-> r.color,
                     before |-> uploads.rows,
                     count |-> IF r.color = "success" THEN uploads.count + 1 ELSE uploads.count,
                     faults |-> IF r.color = "success" /\ fault = "history"
                                THEN uploads.faults + 1 ELSE uploads.faults,
                     persisted |-> IF r.color = "success" /\ fault # "history"
                                   THEN uploads.count + 1 ELSE uploads.persisted]
    /\ UNCHANGED <<sysvars, aggvars, session, view>>

UploadNext ==
    \E n \in Clicks, file_info \in {<< >>, ValidFileInfo}, fault \in Faults :
        ProcessUploadedFile(n, file_info, fault)

UploadSpec == AuthInit /\ [][UploadNext]_vars

\* ==================================================== claims C9 .. C10
\* The grouped tables of the last result, each a function from group key to
\* [target, latest, pct].
GroupTables ==
    IF result.op = "get_dashboard_metrics"
    THEN {result.value.vendor_stats, result.value.cluster_stats, result.value.ulb_stats}
    ELSE IF result.op \in {"get_vendor_statistics", "get_geospatial_data",
                           "create_vendor_performance_radar"} /\ ~result.raised
    THEN {result.value}
    ELSE {}

\* C9 - Per-group zero guard: in every grouped table an aggregation returns,
\* a group whose summed target is 0 has Percent Complete 0, and no Percent
\* Complete is NaN or infinite.
C9_PerGroupZeroGuard ==
    \A g \in GroupTables : \A k \in DOMAIN g :
        /\ g[k].pct.kind = "num"
        /\ g[k].target = 0 => IsZero(g[k].pct)

\* C10 - Overall zero guard: get_dashboard_metrics returns without raising;
\* percent_complete is 0 when the total target is 0; for a table without rows
\* both totals are 0 and the grouped tables are empty; and for a positive
\* total target percent_complete is total_remediated / total_to_remediate * 100.
C10_OverallZeroGuard ==
    result.op = "get_dashboard_metrics" =>
        LET m == result.value
        IN /\ ~result.raised
           /\ m.total_to_remediate = SumTarget(table.rows)
           /\ m.total_to_remediate = 0 => IsZero(m.percent_complete)
           /\ table.rows = << >> =>
                 /\ m.total_to_remediate = 0
                 /\ m.total_remediated = 0
                 /\ DOMAIN m.vendor_stats = {}
                 /\ DOMAIN m.cluster_stats = {}
                 /\ DOMAIN m.ulb_stats = {}
           /\ m.total_to_remediate > 0 =>
                 /\ m.percent_complete.kind = "num"
                 /\ m.percent_complete.n * m.total_to_remediate
                        = m.total_remediated * 100 * m.percent_complete.d

\* get_dashboard_metrics has returned for a table whose total target is 0
\* while something has been remediated: the unguarded division would be by 0.
C10_Witness ==
    /\ result.op = "get_dashboard_metrics"
    /\ table.rows # << >>
    /\ result.value.total_to_remediate = 0
    /\ result.value.total_remediated > 0
    /\ IsZero(result.value.percent_complete)

\* ==================================================== claims C11 .. C20
RECURSIVE SumGroups(_, _, _)
\* The sum of one column (field) of a grouped table g over the keys ks.
SumGroups(g, ks, field) ==
    IF ks = {} THEN 0
    ELSE LET k == CHOOSE x \in ks : TRUE
         IN g[k][field] + SumGroups(g, ks \ {k}, field)

\* C11 - Grouping preserves totals: for a table with rows, the targets of
\* vendor_stats add up to total_to_remediate and its latest-date quantities
\* add up to total_remediated of the same get_dashboard_metrics result.
C11_GroupingPreservesTotals ==
    (result.op = "get_dashboard_metrics" /\ table.rows # << >>) =>
        LET m == result.value
        IN /\ SumGroups(m.vendor_stats, DOMAIN m.vendor_stats, "target")
                 = m.total_to_remediate
           /\ SumGroups(m.vendor_stats, DOMAIN m.vendor_stats, "latest")
                 = m.total_remediated

\* get_dashboard_metrics has returned for a table of two rows of one vendor,
\* both with a positive target and a positive latest quantity: the vendor's
\* group adds two rows up.
C11_Witness ==
    /\ result.op = "get_dashboard_metrics"
    /\ Len(table.rows) = 2
    /\ table.rows[1].Vendor = table.rows[2].Vendor
    /\ \A i \in 1..2 : table.rows[i].target > 0
    /\ result.value.total_remediated = 2
    /\ DOMAIN result.value.vendor_stats = {<<table.rows[1].Vendor>>}

\* The greatest of a non-empty set of dates.
MaxDate(ds) == CHOOSE d \in ds : \A e \in ds : e <= d

\* C12 - Latest date selection: whatever the order of the columns, the
\* latest_date_col of get_dashboard_metrics is the 'Cumulative Quantity'
\* column with the greatest date among the dated columns present.
C12_LatestDateSelection ==
    (result.op = "get_dashboard_metrics" /\ table.dates # << >>) =>
        /\ result.value.latest_date_col = CumCol(MaxDate(Range(table.dates)))
        /\ result.value.latest_date = MaxDate(Range(table.dates))

\* The rows of the table whose col is among the selected values, all rows for
\* an empty or absent selection.
Restrict(rows, col, sel) ==
    IF sel.none \/ sel.vals = << >> THEN rows
    ELSE SelectSeq(rows, LAMBDA r : \E i \in DOMAIN sel.vals : sel.vals[i] = r[col])

\* The values of sel that are in S, in the order of sel.
Kept(sel, S) == SelectSeq(sel.vals, LAMBDA v : v \in S)

\* Whether two selections select the same values in the same order, None
\* counting as the empty list.
SameSelection(a, b) == a.vals = b.vals

\* C13 - Cascading clusters: the cluster options of update_filter_options are
\* the clusters of the rows of the selected vendors (of all rows when no
\* vendor is selected), and the cluster selection it returns is the previous
\* selection without the clusters outside those options.
C13_CascadingClusters ==
    result.op = "update_filter_options" =>
        LET options == {r.Cluster : r \in Range(Restrict(table.rows, "Vendor", result.vendors))}
        IN /\ result.value.cluster_options = options
           /\ SameSelection(result.value.cluster_value,
                            ListSel(Kept(result.clusters, options)))

\* update_filter_options has run with a vendor selected whose clusters are
\* fewer than the table's, and has dropped a selected cluster and kept one.
C13_Witness ==
    /\ result.op = "update_filter_options"
    /\ Len(result.vendors.vals) = 1
    /\ result.value.cluster_options # {r.Cluster : r \in Range(table.rows)}
    /\ Len(result.clusters.vals) = 2
    /\ Len(result.value.cluster_value.vals) = 1

\* C14 - Cascading sites in strict order: the site options of
\* update_filter_options are the sites of the rows narrowed by the selected
\* vendors and then by the selected clusters that are clusters of those rows,
\* and the site selection it returns is the previous selection without the
\* sites outside those options.
C14_CascadingSites ==
    result.op = "update_filter_options" =>
        LET byVendor == Restrict(table.rows, "Vendor", result.vendors)
            clusters == {r.Cluster : r \in Range(byVendor)}
            byCluster == Restrict(byVendor, "Cluster", ListSel(Kept(result.clusters, clusters)))
            options == {r.ULB : r \in Range(byCluster)}
        IN /\ result.value.site_options = options
           /\ SameSelection(result.value.site_value, ListSel(Kept(result.sites, options)))

\* update_filter_options has run with a vendor and a cluster selected that
\* leave fewer sites than the table has and fewer than the vendor alone, and
\* has dropped a selected site and kept one.
C14_Witness ==
    /\ result.op = "update_filter_options"
    /\ Len(result.vendors.vals) = 1
    /\ Len(result.value.cluster_value.vals) = 1
    /\ result.value.site_options # {r.ULB : r \in Range(table.rows)}
    /\ result.value.site_options
           # {r.ULB : r \in Range(Restrict(table.rows, "Vendor", result.vendors))}
    /\ Len(result.sites.vals) = 2
    /\ Len(result.value.site_value.vals) = 1

\* C15 - Conjunctive filtering: the rows update_dashboard uses are the rows of
\* the table that match every non-empty selection, an empty or absent
\* selection restricting nothing.
C15_ConjunctiveFilter ==
    result.op = "update_dashboard" =>
        result.value.filtered_df.rows =
            SelectSeq(table.rows, LAMBDA r :
                /\ (result.vendors.none \/ result.vendors.vals = << >>
                        \/ r.Vendor \in Range(result.vendors.vals))
                /\ (result.clusters.none \/ result.clusters.vals = << >>
                        \/ r.Cluster \in Range(result.clusters.vals))
                /\ (result.sites.none \/ result.sites.vals = << >>
                        \/ r.ULB \in Range(result.sites.vals)))

\* update_dashboard has run with a vendor and a site selected and the cluster
\* selection empty, and has kept one row of two.
C15_Witness ==
    /\ result.op = "update_dashboard"
    /\ Len(result.vendors.vals) = 1
    /\ ~result.clusters.none /\ result.clusters.vals = << >>
    /\ Len(result.sites.vals) = 1
    /\ Len(table.rows) = 2
    /\ table.rows[1].Vendor = table.rows[2].Vendor
    /\ Len(result.value.filtered_df.rows) = 1

\* C16 - Date-range filter: update_dashboard keeps the dated columns whose
\* date d has start_date <= d <= end_date and no other; when none is in range
\* and the table has dated columns, it keeps the one with the greatest date.
C16_DateRangeFilter ==
    result.op = "update_dashboard" =>
        LET dated == Range(table.dates)
            within == {d \in dated : result.start_date <= d /\ d <= result.end_date}
            kept == result.value.filtered_date_columns
        IN IF within # {} THEN Range(kept) = {CumCol(d) : d \in within}
           ELSE IF dated # {} THEN kept = <<CumCol(MaxDate(dated))>>
           ELSE kept = << >>

\* C17 - Reset transition: a click on reset gives empty vendor, cluster and
\* site selections and the date range from '2025-05-01' to the greatest date
\* of the dated columns ('2025-05-12' without dated column), and every dated
\* column of the table lies in that range.
C17_ResetTransition ==
    (result.op = "reset_filters" /\ result.n_clicks > 0) =>
        LET v == result.value
            dated == Range(table.dates)
        IN /\ v.updated
           /\ v.vendors = ListSel(<< >>)
           /\ v.clusters = ListSel(<< >>)
           /\ v.sites = ListSel(<< >>)
           /\ v.start_date = DefaultStartDate
           /\ v.end_date = IF dated # {} THEN MaxDate(dated) ELSE FallbackLatestDate
           /\ \A d \in dated : v.start_date <= d /\ d <= v.end_date

\* The series of the last result: the one of get_daily_progress, or those of
\* the vendors or clusters.
SeriesOfResult ==
    IF result.op = "get_daily_progress" THEN {result.value}
    ELSE IF result.op \in {"get_vendor_progress", "get_cluster_progress"}
    THEN {result.value[k] : k \in DOMAIN result.value}
    ELSE {}

\* C18 - Sorted daily totals: the series get_daily_progress, get_vendor_progress
\* and get_cluster_progress return are in ascending order of date, whatever
\* the order of the dated columns in the table.
C18_SortedDailyTotals ==
    \A s \in SeriesOfResult :
        \A i, j \in DOMAIN s : i < j => s[i].Date < s[j].Date

\* C19 - Daily totals content: the series of get_daily_progress has one
\* (date, total) entry per dated column and no other, the total being the
\* column's sum over all rows of the table; without dated column it is empty,
\* and the chart helper returns its 'no data' placeholder without raising.
C19_DailyTotalsContent ==
    /\ result.op = "get_daily_progress" =>
          LET s == result.value
          IN /\ ~result.raised
             /\ Len(s) = Len(table.dates)
             /\ {s[i].Date : i \in DOMAIN s} = Range(table.dates)
             /\ \A i \in DOMAIN s : s[i].total = SumCol(table.rows, CumCol(s[i].Date))
             /\ table.dates = << >> => s = << >>
    /\ (result.op = "create_daily_progress_chart" /\ table.dates = << >>) =>
          /\ ~result.raised
          /\ result.value.title = "No date data available"
          /\ result.value.points = << >>

\* get_daily_progress has returned two entries with different positive totals
\* for a table of two rows and two dated columns.
C19_Witness ==
    /\ result.op = "get_daily_progress"
    /\ Len(table.rows) = 2
    /\ Len(result.value) = 2
    /\ result.value[1].total = 2
    /\ result.value[2].total = 1

RECURSIVE SumApril(_)
\* The sum of 'Quantity remediated upto 30th April 2025 in MT' over rows.
SumApril(rows) ==
    IF rows = << >> THEN 0 ELSE Head(rows).april + SumApril(Tail(rows))

\* C20 - No-dated-column fallback: for a table without 'Cumulative Quantity'
\* column get_dashboard_metrics returns without raising, with the legacy
\* baseline column as latest_date_col, '2025-04-30' as latest_date and the sum
\* of the legacy baseline column as total_remediated.
C20_NoDatedColumnFallback ==
    (result.op = "get_dashboard_metrics" /\ table.dates = << >>) =>
        /\ ~result.raised
        /\ result.value.latest_date_col = LegacyCol
        /\ result.value.latest_date = DefaultLatestDate
        /\ result.value.total_remediated = SumApril(table.rows)

\* get_dashboard_metrics has returned for a table without dated column whose
\* two rows both have a positive legacy baseline.
C20_Witness ==
    /\ result.op = "get_dashboard_metrics"
    /\ table.dates = << >>
    /\ Len(table.rows) = 2
    /\ \A i \in 1..2 : table.rows[i].april > 0
    /\ result.value.total_remediated = 2

C22_LoginGating ==
    session.event = "route" =>
        /\ session.page.layout = "dashboard" => session.page.is_authenticated
        /\ (session.page.pathname = "/dashboard" /\ ~session.page.is_authenticated)
               => session.page.layout = "login"
        /\ (session.page.pathname = "/" /\ ~session.page.is_authenticated)
               => session.page.layout = "public_landing"

\* A session that logged in and out again has asked for '/dashboard' and
\* was routed unauthenticated.
C22_Witness ==
    /\ session.event = "route"
    /\ session.auth_event = "logout"
    /\ session.page.pathname = "/dashboard"
    /\ ~session.page.is_authenticated
    /\ session.page.layout = "login"

\* C24 - Session transitions: the session is authenticated only if the
\* most recent login or logout click was a successful login; right after a
\* login click that did not log in, the session is unauthenticated, the
\* alert is open and the path is '/login'; right after a logout click the
\* session is unauthenticated and the path is '/'.
C24_SessionTransitions ==
    /\ session.authenticated => session.auth_event = "login_ok"
    /\ session.event \in {"login_failed", "login_raised"} =>
            /\ ~session.authenticated
            /\ session.alert
            /\ session.pathname = "/login"
    /\ session.event = "logout" =>
            /\ ~session.authenticated
            /\ session.pathname = "/"

\* C25 - Public rotation cycle: with at least one vendor, every interval
\* tick adds one to rotation_count and keeps current_vendor_index in
\* [0, n); from the overview the tick shows the first vendor in sorted
\* order, from a vendor the next one, and from the last vendor the overview.
C25_RotationCycle ==
    [][(view'.n_intervals = view.n_intervals + 1 /\ Unique(table.rows, "Vendor") # {}) =>
        LET vs == rotation_vendors(table)
            n == Len(vs)
            s == view.state
            t == view'.state
        IN  /\ t.rotation_count = s.rotation_count + 1
            /\ t.current_vendor_index \in 0..(n - 1)
            /\ \A i \in 1..(n - 1) : \A j \in (i + 1)..n : vs[i] # vs[j]
            /\ s.view_type = "overview" =>
                   t.view_type = "vendor" /\ t.current_vendor_index = 0 /\ view'.content = vs[1]
            /\ (s.view_type = "vendor" /\ s.current_vendor_index + 1 < n) =>
                   /\ t.view_type = "vendor"
                   /\ t.current_vendor_index = s.current_vendor_index + 1
                   /\ view'.content = vs[s.current_vendor_index + 2]
            /\ (s.view_type = "vendor" /\ s.current_vendor_index + 1 = n) =>
                   t.view_type = "overview" /\ view'.content = "overview"]_vars

\* With two vendors the page is back on the overview after both were shown.
C25_Witness ==
    /\ Cardinality(Unique(table.rows, "Vendor")) = 2
    /\ view.state.view_type = "overview"
    /\ view.content = "overview"
    /\ view.state.rotation_count = 3

\* C26 - Initial public view: the first invocation after the page is
\* loaded shows the overview and leaves the view state as the layout
\* created it.
C26_InitialView ==
    view.calls = 1 => (view.content = "overview" /\ view.state = LayoutViewState)

\* C23 - Upload validation gate: validate_uploaded_file enables the process
\* button or stores file_info only for a file named
\* 'Legacy Waste Status_DD.MM.YYYY.xlsx' with an existing date that is not
\* in the future, whose content parses as Excel and has the required
\* columns; a rejected upload leaves the button disabled, file_info None
\* and the upload contents cleared.
C23_ValidationGate ==
    result.op = "validate_uploaded_file" =>
        LET v == result.value
            f == result.filename
        IN  /\ (~v.disabled \/ v.file_info # << >>) =>
                   /\ f.stem = "Legacy Waste Status_" /\ f.tail = ".xlsx"
                   /\ ~ValueError(f) /\ ~InFuture(f)
                   /\ result.contents # << >>
                   /\ result.contents[1].excel
                   /\ required_columns \subseteq result.contents[1].columns
            /\ v.color # "success" =>
                   v.disabled /\ v.file_info = << >> /\ v.contents = << >>

\* The entries of a history or the rows of the page are newest first.
NewestFirst(times) ==
    \A i \in 1..Len(times) : \A j \in (i + 1)..Len(times) : times[i] > times[j]

HistoryTimes == [i \in 1..Len(uploads.history) |-> uploads.history[i].upload_time]

C28_FilterFixedPoint ==
    result.op = "update_filter_options" =>
        update_filter_options(table, result.vendors,
                              result.value.cluster_value, result.value.site_value)
            = result.value

\* update_filter_options has dropped a cluster and a site from the
\* selections and kept one of each.
C28_Witness ==
    /\ result.op = "update_filter_options"
    /\ Len(result.clusters.vals) = 2
    /\ Len(result.value.cluster_value.vals) = 1
    /\ Len(result.sites.vals) = 2
    /\ Len(result.value.site_value.vals) = 1

\* The rows of the table that match a vendor selection.
MatchingVendors(df, vendors) ==
    IF ~vendors.none /\ vendors.vals # << >>
    THEN SelectSeq(df.rows, LAMBDA r : \E i \in DOMAIN vendors.vals : r.Vendor = vendors.vals[i])
    ELSE df.rows

\* C29 - Narrowed selections never empty the dashboard: when some row
\* matches the selected vendors (or no vendor is selected and the table has
\* rows), update_dashboard's filter on the vendors and on the cluster and
\* site selections update_filter_options returned selects at least one row.
C29_NarrowedNeverEmpty ==
    (result.op = "update_filter_options" /\ MatchingVendors(table, result.vendors) # << >>) =>
        \A sd \in PickerDates, ed \in PickerDates :
            update_dashboard(table, result.vendors, result.value.cluster_value,
                             result.value.site_value, sd, ed).filtered_df.rows # << >>

\* A cluster selection none of which the selected vendor has was cleared,
\* and a site selection was narrowed to a site of that vendor.
C29_Witness ==
    /\ result.op = "update_filter_options"
    /\ Truthy(result.vendors)
    /\ MatchingVendors(table, result.vendors) # << >>
    /\ Truthy(result.clusters)
    /\ result.value.cluster_value = ListSel(<< >>)
    /\ Len(result.sites.vals) = 2
    /\ Len(result.value.site_value.vals) = 1

\* Watcher w leaves its update step: it records the time it read and
\* attempts the forced reload.
ForcedReloadStep(w) == watchers[w].pc = "update" /\ watchers'[w].pc # "update"

\* C30 - Watcher timestamp and missed reloads: DATA_FILE_LAST_MODIFIED
\* never decreases; a forced reload is attempted only for a modification
\* time later than the recorded one, which is recorded with the attempt,
\* so that a change whose reload raised is not tried again until the
\* file's modification time advances.
C30_WatcherTimestamp ==
    [][/\ lastModified' >= lastModified
       /\ \A w \in DOMAIN watchers :
              ForcedReloadStep(w) =>
                  /\ watchers[w].cm > lastModified
                  /\ lastModified' = watchers[w].cm]_vars

====
